---- MODULE Spec2Model ----
(***************************************************************************)
(* The FinancialDashboard component (src/static/js/FinancialDashboard.js)  *)
(* as a state machine: the seven useState slots, the requests that are in  *)
(* flight, and one action per handler and per request completion.          *)
(*                                                                         *)
(* Two next-state relations are built from the same handler definitions:   *)
(*   Next         the component as it is rendered: handlers run only       *)
(*                through the form and the buttons, which the JSX disables *)
(*                or leaves out (lines 133, 147, 272);                     *)
(*   HandlerNext  handleSearch and handleAnalysisClick called in any       *)
(*                state, as a caller holding the functions could.          *)
(***************************************************************************)
EXTENDS Integers, Sequences, FiniteSets, TLC

\* ------------------------------------------------------------------ bounds
MaxTickerLen == 1     \* longest ticker text typed into the input
MaxInFlight == 2      \* HandlerNext only: requests in flight at one time

\* ------------------------------------------------------------ value domains
\* Characters of the ticker input: one lower-case, one already upper-case.
Chars == {"a", "A"}

Tickers == UNION {[1..n -> Chars] : n \in 0..MaxTickerLen}

\* JavaScript null held in the `data` slot, and a body response.json() rejects.
null == [null |-> TRUE]
Unparseable == [unparseable |-> TRUE]

\* `analysisType` starts as null; result[field] of a missing field is undefined.
nullType == "null"
undefined == "undefined"

AnalysisTypes == {"analyze", "predict", "risk"}

Quarter(d, rev) ==
    [date |-> d, metrics |-> [Revenue |-> rev, NetIncome |-> rev - 80]]

\* Two StockSnapshot bodies the backend may return. priceChange is optional.
\* Both carry the two quarterly records that lines 187 and 191 read.
SnapshotA ==
    [company_info |-> [ticker |-> "A", priceChange |-> 2],
     quarterly_data |-> <<Quarter("Q2", 120), Quarter("Q1", 100)>>]

SnapshotB ==
    [company_info |-> [ticker |-> "AA"],
     quarterly_data |-> <<Quarter("Q2", 90), Quarter("Q1", 100)>>]

Datasets == {SnapshotA, SnapshotB}

\* Messages an Error can carry into setError(err.message).
SearchFallback == "Failed to fetch data"
AnalysisFallback == "Failed to generate analysis"
NetworkErrorMessage == "NetworkError when attempting to fetch resource"
SyntaxErrorMessage == "Unexpected token in JSON"
TypeErrorMessage == "Cannot read properties of null"

\* Bodies of a non-2xx response: an error string, an empty error string, no
\* error field, JSON null, text that is not JSON.
ErrorBodies ==
    {[error |-> "Not found"], [error |-> ""], [message |-> "oops"],
     null, Unparseable}

\* Bodies of a 2xx analysis response: all three result fields, or one alone,
\* each field with a text of its own.
ResultText ==
    [analysis |-> "analysis text", prediction |-> "prediction text",
     risk_assessment |-> "risk text"]

AnalysisBodies ==
    {ResultText} \cup {[f \in {g} |-> ResultText[f]] : g \in DOMAIN ResultText}

Http(ok, body) == [type |-> "http", ok |-> ok, body |-> body]

Rejected == [type |-> "reject"]

SearchResponses ==
    {Rejected}
    \cup {Http(TRUE, b) : b \in Datasets \cup {Unparseable}}
    \cup {Http(FALSE, b) : b \in ErrorBodies \cup {SnapshotA}}

AnalysisResponses ==
    {Rejected}
    \cup {Http(TRUE, b) : b \in AnalysisBodies \cup {Unparseable}}
    \cup {Http(FALSE, b) : b \in ErrorBodies \cup {[analysis |-> "analysis text"]}}

\* No function applied on its own, and no value returned yet.
NoCall == [fn |-> "none"]
NoRet == [pending |-> TRUE]

\* -------------------------------------------------------------------- state
VARIABLES
    ticker,            \* useState('')    line 30
    loading,           \* useState(false) line 31
    error,             \* useState('')    line 32
    data,              \* useState(null)  line 33
    analysisType,      \* useState(null)  line 34
    analysisContent,   \* useState('')    line 35
    loadingAnalysis,   \* useState(false) line 36
    searchReqs,        \* GET requests awaiting completion, in issue order
    analysisReqs,      \* POST requests awaiting completion, in issue order
    uncaught,          \* an exception left a handler (its promise rejected)
    fromLatest,        \* analysisContent came from the request started last
    event,             \* the handler or completion that ran last
    call,              \* a function of the file applied on its own: arguments
    ret                \* ... and what it returned

view == <<ticker, loading, error, data, analysisType, analysisContent,
          loadingAnalysis>>

vars == <<ticker, loading, error, data, analysisType, analysisContent,
          loadingAnalysis, searchReqs, analysisReqs, uncaught, fromLatest,
          event, call, ret>>

Init ==
    /\ ticker = <<>>
    /\ loading = FALSE
    /\ error = ""
    /\ data = null
    /\ analysisType = nullType
    /\ analysisContent = ""
    /\ loadingAnalysis = FALSE
    /\ searchReqs = <<>>
    /\ analysisReqs = <<>>
    /\ uncaught = FALSE
    /\ fromLatest = TRUE
    /\ event = "mount"
    /\ call = NoCall
    /\ ret = NoRet

\* ------------------------------------------------------------------ helpers
Remove(s, i) == [j \in 1..(Len(s) - 1) |-> IF j < i THEN s[j] ELSE s[j + 1]]

\* String.prototype.toUpperCase over the modelled characters.
UpperChar(c) == IF c = "a" THEN "A" ELSE c

toUpperCase(s) == [i \in 1..Len(s) |-> UpperChar(s[i])]

\* Variant of SearchUrl: the ticker is sent as typed.
SearchUrlAsTyped(t) == <<"/api/stock/">> \o t

\* `/api/stock/${ticker.toUpperCase()}`: the prefix, then the characters.
SearchUrl(t) == <<"/api/stock/">> \o toUpperCase(t)

\* `/api/${type}`
AnalysisUrl(type) == <<"/api/", type>>

\* Variant of ResultField: the analysis field for every kind.
ResultFieldOfAnalyze(type) == "analysis"

\* type === 'analyze' ? 'analysis' : type === 'predict' ? 'prediction' : ...
ResultField(type) ==
    IF type = "analyze" THEN "analysis"
    ELSE IF type = "predict" THEN "prediction"
    ELSE "risk_assessment"

\* Outcome of a try block: it ran to its end with a value, or it threw.
Return(v) == [threw |-> FALSE, value |-> v]
Throw(m) == [threw |-> TRUE, message |-> m]

\* Variant of ErrorOr: the body's error field is ignored.
ErrorOrFallback(body, fallback) == fallback

\* errorData.error || fallback
ErrorOr(body, fallback) ==
    IF "error" \in DOMAIN body /\ body.error # "" THEN body.error ELSE fallback

\* if (!response.ok) { const errorData = await response.json(); throw ... }
ThrowNotOk(body, fallback) ==
    IF body = Unparseable THEN Throw(SyntaxErrorMessage)
    ELSE IF body = null THEN Throw(TypeErrorMessage)
    ELSE Throw(ErrorOr(body, fallback))

\* Variant of Caught: no catch clause.
CaughtNothing(o) == FALSE

\* catch (err) { ... } has no filter: whatever the try block threw is caught.
Caught(o) == o.threw

\* ---------------------------------------------------------------- handlers
\* onChange={(e) => setTicker(e.target.value)}
SetTicker(t) ==
    /\ ticker' = t
    /\ event' = "setTicker"
    /\ UNCHANGED <<call, ret>>
    /\ UNCHANGED <<loading, error, data, analysisType, analysisContent,
                   loadingAnalysis, searchReqs, analysisReqs, uncaught,
                   fromLatest>>

\* Variant of SearchGuard: no early return.
SearchGuardAlways(t) == TRUE

\* if (!ticker) return;
SearchGuard(t) == t # <<>>

\* fetch(`/api/stock/${ticker.toUpperCase()}`)
SearchRequest(t) == [method |-> "GET", url |-> SearchUrl(t)]

\* handleSearch, up to its first await.
handleSearch ==
    /\ event' = "handleSearch"
    /\ UNCHANGED <<call, ret>>
    /\ IF SearchGuard(ticker)
       THEN /\ loading' = TRUE
            /\ error' = ""
            /\ data' = null
            /\ analysisContent' = ""
            /\ searchReqs' = Append(searchReqs, SearchRequest(ticker))
       ELSE UNCHANGED <<loading, error, data, analysisContent, searchReqs>>
    /\ UNCHANGED <<ticker, analysisType, loadingAnalysis, analysisReqs,
                   uncaught, fromLatest>>

\* Variant of SearchTry: response.ok is not looked at.
SearchTryIgnoringStatus(resp) ==
    IF resp.type = "reject" THEN Throw(NetworkErrorMessage)
    ELSE IF resp.body = Unparseable THEN Throw(SyntaxErrorMessage)
    ELSE Return(resp.body)

\* The try block of handleSearch after the fetch settles (lines 48-56).
SearchTry(resp) ==
    IF resp.type = "reject" THEN Throw(NetworkErrorMessage)
    ELSE IF ~resp.ok THEN ThrowNotOk(resp.body, SearchFallback)
    ELSE IF resp.body = Unparseable THEN Throw(SyntaxErrorMessage)
    ELSE Return(resp.body)

\* Variant of SetData: company_info is merged into the one held.
MergeFields(a, b) ==
    [f \in DOMAIN a \cup DOMAIN b |-> IF f \in DOMAIN b THEN b[f] ELSE a[f]]

SetDataMerged(old, result) ==
    IF old = null THEN result
    ELSE [result EXCEPT
            !.company_info = MergeFields(old.company_info, result.company_info)]

\* setData(result): the slot is replaced by the parsed body.
SetData(old, result) == result

\* Variant of Finally: the flag is left as it is.
FinallySkipped(flag) == flag

\* finally { setLoading(false) } / finally { setLoadingAnalysis(false) }
Finally(flag) == FALSE

\* Variant of SearchSettles: the settling response writes both slots, a
\* success clearing the error and a failure clearing the dataset.
SearchSettlesBothSlots(i, resp) ==
    /\ i \in 1..Len(searchReqs)
    /\ LET o == SearchTry(resp) IN
       /\ data' = IF o.threw THEN null ELSE SetData(data, o.value)
       /\ error' = IF Caught(o) THEN o.message ELSE ""
       /\ uncaught' = (uncaught \/ (o.threw /\ ~Caught(o)))
    /\ loading' = Finally(loading)
    /\ searchReqs' = Remove(searchReqs, i)
    /\ event' = "searchSettled"
    /\ UNCHANGED <<call, ret>>
    /\ UNCHANGED <<ticker, analysisType, analysisContent, loadingAnalysis,
                   analysisReqs, fromLatest>>

\* handleSearch, from the settling of request i to the handler's end. The two
\* awaits (fetch, then response.json()) are one step: the handler writes no
\* state between them and reads none after them, so only the moment the last
\* one resolves is visible to the other handlers.
SearchSettles(i, resp) ==
    /\ i \in 1..Len(searchReqs)
    /\ LET o == SearchTry(resp) IN
       /\ data' = IF o.threw THEN data ELSE SetData(data, o.value)
       /\ error' = IF Caught(o) THEN o.message ELSE error
       /\ uncaught' = (uncaught \/ (o.threw /\ ~Caught(o)))
    /\ loading' = Finally(loading)
    /\ searchReqs' = Remove(searchReqs, i)
    /\ event' = "searchSettled"
    /\ UNCHANGED <<call, ret>>
    /\ UNCHANGED <<ticker, analysisType, analysisContent, loadingAnalysis,
                   analysisReqs, fromLatest>>

\* Variant of AnalysisGuard: no early return.
AnalysisGuardAlways(d) == TRUE

\* if (!data) return;
AnalysisGuard(d) == d # null

\* Variant of ContentAtStart: the text is kept.
ContentAtStartKept(old) == old

\* setAnalysisContent('') before the request is issued (line 69).
ContentAtStart(old) == ""

\* fetch(endpoint, {method: 'POST', ..., body: JSON.stringify(data)}); the
\* continuation keeps `type` in its closure. `latest` marks the request
\* started last.
AnalysisRequest(type, d) ==
    [method |-> "POST", url |-> AnalysisUrl(type), body |-> d, type |-> type,
     latest |-> TRUE]

Superseded(reqs) == [j \in 1..Len(reqs) |-> [reqs[j] EXCEPT !.latest = FALSE]]

\* Variant of handleAnalysisClick: starting an analysis clears the error too.
handleAnalysisClickClearingError(type) ==
    /\ event' = "handleAnalysisClick"
    /\ UNCHANGED <<call, ret>>
    /\ IF AnalysisGuard(data)
       THEN /\ loadingAnalysis' = TRUE
            /\ analysisType' = type
            /\ analysisContent' = ContentAtStart(analysisContent)
            /\ analysisReqs' =
                   Append(Superseded(analysisReqs), AnalysisRequest(type, data))
            /\ fromLatest' = FALSE
            /\ error' = ""
       ELSE UNCHANGED <<loadingAnalysis, analysisType, analysisContent,
                        analysisReqs, fromLatest, error>>
    /\ UNCHANGED <<ticker, loading, data, searchReqs, uncaught>>

\* handleAnalysisClick(type), up to its first await.
handleAnalysisClick(type) ==
    /\ event' = "handleAnalysisClick"
    /\ UNCHANGED <<call, ret>>
    /\ IF AnalysisGuard(data)
       THEN /\ loadingAnalysis' = TRUE
            /\ analysisType' = type
            /\ analysisContent' = ContentAtStart(analysisContent)
            /\ analysisReqs' =
                   Append(Superseded(analysisReqs), AnalysisRequest(type, data))
            /\ fromLatest' = FALSE
       ELSE UNCHANGED <<loadingAnalysis, analysisType, analysisContent,
                        analysisReqs, fromLatest>>
    /\ UNCHANGED <<ticker, loading, error, data, searchReqs, uncaught>>

\* The try block of handleAnalysisClick after the fetch settles (lines 79-89).
AnalysisTry(type, resp) ==
    IF resp.type = "reject" THEN Throw(NetworkErrorMessage)
    ELSE IF ~resp.ok THEN ThrowNotOk(resp.body, AnalysisFallback)
    ELSE IF resp.body = Unparseable THEN Throw(SyntaxErrorMessage)
    ELSE IF ResultField(type) \in DOMAIN resp.body
         THEN Return(resp.body[ResultField(type)])
    ELSE Return(undefined)

\* handleAnalysisClick, from the settling of request i to the handler's end.
AnalysisSettles(i, resp) ==
    /\ i \in 1..Len(analysisReqs)
    /\ LET o == AnalysisTry(analysisReqs[i].type, resp) IN
       /\ analysisContent' = IF o.threw THEN analysisContent ELSE o.value
       /\ fromLatest' = IF o.threw THEN fromLatest ELSE analysisReqs[i].latest
       /\ error' = IF Caught(o) THEN o.message ELSE error
       /\ uncaught' = (uncaught \/ (o.threw /\ ~Caught(o)))
    /\ loadingAnalysis' = Finally(loadingAnalysis)
    /\ analysisReqs' = Remove(analysisReqs, i)
    /\ event' = "analysisSettled"
    /\ UNCHANGED <<call, ret>>
    /\ UNCHANGED <<ticker, loading, data, analysisType, searchReqs>>

\* ------------------------------------------------------- the rendered view
\* Variant of SearchDisabled: the button ignores loading.
SearchDisabledOnEmpty == ticker = <<>>

\* <button type="submit" disabled={loading || !ticker}>
SearchDisabled == loading \/ ticker = <<>>

\* {data && ( ... the three analysis buttons ... )}
AnalysisButtonsRendered == data # null

\* Variant of AnalysisDisabled: the buttons are never disabled.
AnalysisNeverDisabled == FALSE

\* <button onClick={() => handleAnalysisClick(type)} disabled={loadingAnalysis}>
AnalysisDisabled == loadingAnalysis

TypeTicker == \E t \in Tickers : SetTicker(t)

SubmitForm == ~SearchDisabled /\ handleSearch

ClickAnalysis ==
    /\ AnalysisButtonsRendered
    /\ ~AnalysisDisabled
    /\ \E type \in AnalysisTypes : handleAnalysisClick(type)

SearchResponse ==
    \E i \in 1..Len(searchReqs), resp \in SearchResponses : SearchSettles(i, resp)

AnalysisResponse ==
    \E i \in 1..Len(analysisReqs), resp \in AnalysisResponses :
        AnalysisSettles(i, resp)

Next ==
    \/ TypeTicker
    \/ SubmitForm
    \/ ClickAnalysis
    \/ SearchResponse
    \/ AnalysisResponse

Spec == Init /\ [][Next]_vars

\* Every request the host's networking layer was handed is settled.
FairSpec ==
    Init /\ [][Next]_vars /\ WF_vars(SearchResponse) /\ WF_vars(AnalysisResponse)

\* --------------------------------------------- the handlers called directly
InFlight == Len(searchReqs) + Len(analysisReqs)

CallSearch == InFlight < MaxInFlight /\ handleSearch

CallAnalysis ==
    /\ InFlight < MaxInFlight
    /\ \E type \in AnalysisTypes : handleAnalysisClick(type)

HandlerNext ==
    \/ TypeTicker
    \/ CallSearch
    \/ CallAnalysis
    \/ SearchResponse
    \/ AnalysisResponse

HandlerSpec == Init /\ [][HandlerNext]_vars
\* ------------------------------------------------------------------ claims
\* The text shown in the analysis panel: analysisContent when it is truthy.
TextShown == analysisContent # "" /\ analysisContent # undefined

\* C1: handleSearch run while the ticker text is empty changes none of the
\* seven state slots and issues no request, whatever state it is run in.
C1_EmptyTickerIsNoOp ==
    [][(event' = "handleSearch" /\ ticker = <<>>)
          => (UNCHANGED view /\ UNCHANGED <<searchReqs, analysisReqs>>)]_vars

\* C1 witness: the handler has run on an empty ticker in a state that holds a
\* dataset, an analysis text and an error, and all three are still there.
C1_Witness ==
    /\ event = "handleSearch"
    /\ ticker = <<>>
    /\ data = SnapshotA
    /\ analysisContent = "risk text"
    /\ error = "Not found"
    /\ searchReqs = <<>>

\* The upper-case form of a modelled ticker character, written out.
UpperOf == [c \in Chars |-> "A"]

\* C2: handleSearch run on a non-empty ticker sets loading, empties error,
\* data and analysisContent, and adds exactly one request: a GET whose path
\* is /api/stock/ followed by the ticker's characters in upper case.
C2_SearchStarts ==
    [][(event' = "handleSearch" /\ ticker # <<>>)
          => /\ loading' = TRUE
             /\ error' = ""
             /\ data' = null
             /\ analysisContent' = ""
             /\ Len(searchReqs') = Len(searchReqs) + 1
             /\ SubSeq(searchReqs', 1, Len(searchReqs)) = searchReqs
             /\ analysisReqs' = analysisReqs
             /\ LET r == searchReqs'[Len(searchReqs')] IN
                /\ r.method = "GET"
                /\ Len(r.url) = Len(ticker) + 1
                /\ r.url[1] = "/api/stock/"
                /\ \A k \in 1..Len(ticker) : r.url[k + 1] = UpperOf[ticker[k]]]_vars

\* C2 witness: a search for "a" has just been started: loading is set, data
\* is null and the one request in flight asks for /api/stock/A.
C2_Witness ==
    /\ event = "handleSearch"
    /\ ticker = <<"a">>
    /\ loading
    /\ data = null
    /\ searchReqs = <<[method |-> "GET", url |-> <<"/api/stock/", "A">>]>>

\* C3: when a search request settles with a 2xx response whose body parses,
\* data becomes that body and nothing of the dataset held before survives.
C3_SuccessReplacesDataset ==
    [][event' = "searchSettled"
          => \A i \in 1..Len(searchReqs), b \in Datasets :
                SearchSettles(i, Http(TRUE, b)) => data' = b]_vars

\* C3 witness: a search has just settled with SnapshotB, which has no
\* priceChange, and SnapshotB is what is held.
C3_Witness ==
    /\ event = "searchSettled"
    /\ data = SnapshotB
    /\ ~loading
    /\ error = ""
\* Messages that are not taken from a response body: the two literals of the
\* handlers and the messages of the exceptions fetch and response.json raise.
GenericMessages ==
    {SearchFallback, AnalysisFallback, NetworkErrorMessage, SyntaxErrorMessage,
     TypeErrorMessage}

\* A response that makes its handler's try block throw.
Fails(resp) ==
    \/ resp.type = "reject"
    \/ ~resp.ok
    \/ resp.body = Unparseable

FailedSearchResponses == {resp \in SearchResponses : Fails(resp)}

FailedAnalysisResponses == {resp \in AnalysisResponses : Fails(resp)}

\* A response with a non-2xx status.
NotOk(resp) == resp.type = "http" /\ ~resp.ok

NotOkSearchResponses == {resp \in SearchResponses : NotOk(resp)}

NotOkAnalysisResponses == {resp \in AnalysisResponses : NotOk(resp)}

\* The body of a non-2xx response parsed, and it carries a non-empty error.
CarriesError(resp) ==
    /\ resp.type = "http"
    /\ ~resp.ok
    /\ "error" \in DOMAIN resp.body
    /\ resp.body.error # ""

\* The body of a non-2xx response parsed to an object without such a field.
CarriesNoError(resp) ==
    /\ resp.type = "http"
    /\ ~resp.ok
    /\ resp.body \notin {null, Unparseable}
    /\ ~CarriesError(resp)

\* C4: when a search request fails in the rendered component, error becomes
\* the body's error field when the body has a non-empty one, the literal
\* fallback when the body parsed without one, and a message taken from
\* nowhere in the body otherwise; data is null afterwards.
C4_SearchFailure ==
    [][event' = "searchSettled"
          => \A i \in 1..Len(searchReqs), resp \in FailedSearchResponses :
                SearchSettles(i, resp)
                   => /\ CarriesError(resp) => error' = resp.body.error
                      /\ CarriesNoError(resp) => error' = SearchFallback
                      /\ ~CarriesError(resp) => error' \in GenericMessages
                      /\ data' = null]_vars

\* C4 witness: a search has just failed with {error: "Not found"}.
C4_Witness ==
    /\ event = "searchSettled"
    /\ error = "Not found"
    /\ data = null
    /\ ~loading

\* C5: handleAnalysisClick run while data is null changes none of the seven
\* state slots and issues no request, whichever kind it is called with.
C5_NoDatasetIsNoOp ==
    [][(event' = "handleAnalysisClick" /\ data = null)
          => (UNCHANGED view /\ UNCHANGED <<searchReqs, analysisReqs>>)]_vars

\* C5 witness: the handler has run without a dataset while an earlier failed
\* search's error is shown; no kind was recorded and no request is in flight.
C5_Witness ==
    /\ event = "handleAnalysisClick"
    /\ data = null
    /\ analysisType = nullType
    /\ error = "Not found"
    /\ ~loadingAnalysis
    /\ analysisReqs = <<>>

\* The result field of each kind, written out.
FieldOf ==
    [analyze |-> "analysis", predict |-> "prediction", risk |-> "risk_assessment"]

\* C6: handleAnalysisClick(kind) run with a dataset adds exactly one request,
\* a POST to /api/{kind} whose body is the dataset held, and records kind;
\* when a request of a kind settles with a parsed 2xx body, analysisContent
\* becomes that body's field for the kind (undefined when it has none).
C6_AnalysisRequestAndResult ==
    [][/\ (event' = "handleAnalysisClick" /\ data # null)
             => /\ Len(analysisReqs') = Len(analysisReqs) + 1
                /\ searchReqs' = searchReqs
                /\ analysisType' \in AnalysisTypes
                /\ LET r == analysisReqs'[Len(analysisReqs')] IN
                   /\ r.method = "POST"
                   /\ r.url = <<"/api/", analysisType'>>
                   /\ r.body = data
                   /\ r.type = analysisType'
       /\ event' = "analysisSettled"
             => \A i \in 1..Len(analysisReqs), b \in AnalysisBodies :
                   AnalysisSettles(i, Http(TRUE, b))
                      => analysisContent' =
                            IF FieldOf[analysisReqs[i].type] \in DOMAIN b
                            THEN b[FieldOf[analysisReqs[i].type]]
                            ELSE undefined]_vars

\* C6 witness: a risk request has just settled and its risk_assessment text
\* is the analysis text, with risk the selected kind.
C6_Witness ==
    /\ event = "analysisSettled"
    /\ analysisType = "risk"
    /\ analysisContent = "risk text"
    /\ data = SnapshotA
    /\ analysisReqs = <<>>
\* C7: in the rendered component a text shown in the analysis panel always
\* comes from the analysis request started last, and starting a request with
\* a dataset present empties the text in the same step.
C7_OnlyLatestAnalysisShown ==
    /\ [](TextShown => fromLatest)
    /\ [][(event' = "handleAnalysisClick" /\ data # null)
             => analysisContent' = ""]_vars

\* C7 witness: after an earlier analysis request failed, a later one was
\* started and has settled, and its text is the one shown.
C7_Witness ==
    /\ event = "analysisSettled"
    /\ error = AnalysisFallback
    /\ analysisType = "predict"
    /\ analysisContent = "prediction text"
    /\ fromLatest
    /\ analysisReqs = <<>>

\* C8: provided every request is settled, loading and loadingAnalysis each
\* lead to their own clearing; the step that settles a request of a family
\* clears that family's flag on success and on failure alike; and a flag is
\* never set while no request of its family is in flight.
C8_LoadingFlagsCleared ==
    /\ loading ~> ~loading
    /\ loadingAnalysis ~> ~loadingAnalysis
    /\ [](searchReqs = <<>> => ~loading)
    /\ [](analysisReqs = <<>> => ~loadingAnalysis)
    /\ [][/\ event' = "searchSettled" => ~loading'
          /\ event' = "analysisSettled" => ~loadingAnalysis']_vars

\* C8 witness: an analysis request has just failed while a search is still
\* in flight: loadingAnalysis is cleared and loading is still set.
C8_Witness ==
    /\ event = "analysisSettled"
    /\ error = NetworkErrorMessage
    /\ ~loadingAnalysis
    /\ loading
    /\ Len(searchReqs) = 1

\* C9: in the rendered component, when an analysis request fails, data and
\* analysisContent are what they were, analysisContent is empty, error is the
\* failure's message whatever it held before, and loadingAnalysis is cleared.
C9_AnalysisFailure ==
    [][event' = "analysisSettled"
          => \A i \in 1..Len(analysisReqs), resp \in FailedAnalysisResponses :
                AnalysisSettles(i, resp)
                   => /\ data' = data
                      /\ analysisContent' = analysisContent
                      /\ analysisContent' = ""
                      /\ ~loadingAnalysis'
                      /\ CarriesError(resp) => error' = resp.body.error
                      /\ CarriesNoError(resp) => error' = AnalysisFallback
                      /\ ~CarriesError(resp) => error' \in GenericMessages]_vars

\* C9 witness: an analysis request has just failed with {error: "Not found"}
\* and the dataset fetched before is still held.
C9_Witness ==
    /\ event = "analysisSettled"
    /\ error = "Not found"
    /\ data = SnapshotA
    /\ analysisContent = ""
    /\ ~loadingAnalysis

\* C10: a non-2xx response to either family, whatever its body, and also one
\* whose body is not JSON, ends its handler with a non-empty error, the
\* family's loading flag cleared, data and analysisContent as they were, and
\* no exception out of the handler; when the body did not parse to an object
\* with an error, the message is one not taken from the body.
C10_NonOkIsFailure ==
    [][/\ event' = "searchSettled"
          => \A i \in 1..Len(searchReqs), resp \in NotOkSearchResponses :
             SearchSettles(i, resp)
                => /\ error' # ""
                   /\ ~CarriesError(resp) => error' \in GenericMessages
                   /\ ~loading'
                   /\ data' = data
                   /\ analysisContent' = analysisContent
                   /\ ~uncaught'
       /\ event' = "analysisSettled"
          => \A i \in 1..Len(analysisReqs), resp \in NotOkAnalysisResponses :
             AnalysisSettles(i, resp)
                => /\ error' # ""
                   /\ ~CarriesError(resp) => error' \in GenericMessages
                   /\ ~loadingAnalysis'
                   /\ data' = data
                   /\ analysisContent' = analysisContent
                   /\ ~uncaught']_vars

\* C10 witness: a request has just settled with a body that is not JSON: the
\* parser's message is the error, nothing was populated, nothing escaped.
C10_Witness ==
    /\ event = "searchSettled"
    /\ error = SyntaxErrorMessage
    /\ data = null
    /\ ~loading
    /\ ~uncaught

\* C11: in the rendered component no state has more than one search request
\* or more than one analysis request in flight.
C11_OneRequestPerFamily ==
    /\ Len(searchReqs) <= 1
    /\ Len(analysisReqs) <= 1

\* C11 witness: one request of each family is in flight at once, the search
\* having been submitted while the analysis request was pending.
C11_Witness ==
    /\ event = "handleSearch"
    /\ Len(searchReqs) = 1
    /\ Len(analysisReqs) = 1
    /\ loading
    /\ loadingAnalysis

\* ------------------------------------------- functions applied on their own
MaxQuarters == 2      \* longest quarterly_data sequence applied to

\* JavaScript values a metric or a formatter argument can be. A property that
\* is missing reads as undefined, so a missing metric is a field holding it.
JsUndefined == [t |-> "undefined"]
JsNull == [t |-> "null"]
JsNaN == [t |-> "NaN"]
JsInfinity == [t |-> "Infinity"]
Num(n) == [t |-> "number", v |-> n]

IsNum(x) == x.t = "number"

\* QuarterlyRecord: a date and the metrics mapping, a metric present or not.
QuarterRecords ==
    [date : {"2024-03-31", "2024-06-30"},
     metrics : [Revenue : {JsUndefined, Num(120)},
                NetIncome : {JsUndefined, Num(20)},
                ProfitMargin : {Num(16)},
                Assets : {Num(500)}]]

QuarterlySeqs == UNION {[1..n -> QuarterRecords] : n \in 0..MaxQuarters}

Ret(v) == [value |-> v]

\* Variant of chartData: records without a Revenue are left out.
chartDataSkippingGaps(qd) ==
    LET kept == SelectSeq(qd, LAMBDA q : IsNum(q.metrics.Revenue)) IN
    [i \in 1..Len(kept) |->
        [date |-> kept[i].date,
         revenue |-> kept[i].metrics.Revenue,
         netIncome |-> kept[i].metrics.NetIncome,
         profitMargin |-> kept[i].metrics.ProfitMargin]]

\* data.quarterly_data.map(q => ({date, revenue, netIncome, profitMargin}))
chartData(qd) ==
    [i \in 1..Len(qd) |->
        [date |-> qd[i].date,
         revenue |-> qd[i].metrics.Revenue,
         netIncome |-> qd[i].metrics.NetIncome,
         profitMargin |-> qd[i].metrics.ProfitMargin]]

ChartCalls == {[fn |-> "chartData", qd |-> q] : q \in QuarterlySeqs}

ApplyChartData ==
    /\ call.fn = "chartData"
    /\ ret = NoRet
    /\ ret' = Ret(chartData(call.qd))
    /\ UNCHANGED <<ticker, loading, error, data, analysisType, analysisContent,
                   loadingAnalysis, searchReqs, analysisReqs, uncaught,
                   fromLatest, event, call>>

\* C12: the chart adapter applied to N quarterly records returns N tuples,
\* the i-th holding the i-th record's date, Revenue, NetIncome and
\* ProfitMargin as they are, undefined included.
C12_ChartAdapterKeepsOrderAndCount ==
    (call.fn = "chartData" /\ ret # NoRet)
       => /\ Len(ret.value) = Len(call.qd)
          /\ \A i \in 1..Len(call.qd) :
                /\ DOMAIN ret.value[i] =
                      {"date", "revenue", "netIncome", "profitMargin"}
                /\ ret.value[i].date = call.qd[i].date
                /\ ret.value[i].revenue = call.qd[i].metrics.Revenue
                /\ ret.value[i].netIncome = call.qd[i].metrics.NetIncome
                /\ ret.value[i].profitMargin = call.qd[i].metrics.ProfitMargin

\* C12 witness: two records, the older one first and the first without a
\* Revenue, came back as two tuples in that order with the gap kept.
C12_Witness ==
    /\ call.fn = "chartData"
    /\ ret # NoRet
    /\ Len(call.qd) = 2
    /\ call.qd[1].date = "2024-03-31"
    /\ call.qd[2].date = "2024-06-30"
    /\ call.qd[1].metrics.Revenue = JsUndefined
    /\ Len(ret.value) = 2
    /\ ret.value[1].date = "2024-03-31"
    /\ ret.value[1].revenue = JsUndefined

JsNegInfinity == [t |-> "-Infinity"]

Abs(n) == IF n < 0 THEN -n ELSE n

\* Truthiness of a metric value: undefined, null, NaN and 0 are falsy.
Truthy(x) == (IsNum(x) /\ x.v # 0) \/ x = JsInfinity \/ x = JsNegInfinity

\* The operand a value becomes under `-`: undefined is NaN, null is 0.
ToNumber(x) ==
    IF x = JsUndefined THEN JsNaN
    ELSE IF x = JsNull THEN Num(0)
    ELSE x

\* A finite quotient, kept exact.
Ratio(n, d) == [t |-> "ratio", num |-> n, den |-> d]

\* previousValue ? ((value - previousValue) / previousValue) * 100 : null
\* (line 98; a previousValue left out defaults to null on line 97).
Change(value, previousValue) ==
    IF ~Truthy(previousValue) THEN JsNull
    ELSE LET a == ToNumber(value) IN
         IF a = JsNaN THEN JsNaN
         ELSE IF ~IsNum(previousValue) THEN JsNaN
         ELSE IF ~IsNum(a)
              THEN IF (a = JsInfinity) = (previousValue.v > 0)
                   THEN JsInfinity ELSE JsNegInfinity
         ELSE Ratio(100 * (a.v - previousValue.v), previousValue.v)

\* Variant of ChangeShown: the indicator is shown for finite changes only.
ChangeShownIfFinite(change) == change.t = "ratio"

\* change !== null && !isNaN(change)
ChangeShown(change) == change # JsNull /\ change # JsNaN

\* Variant of ChangeIsUp: a change of zero points down.
ChangeIsUpStrict(change) ==
    IF change.t = "ratio" THEN change.num * change.den > 0
    ELSE change = JsInfinity

\* change >= 0
ChangeIsUp(change) ==
    IF change.t = "ratio" THEN change.num * change.den >= 0
    ELSE change = JsInfinity

\* Math.abs(change).toFixed(1): tenths of a percent, halves rounded up, or the
\* text toFixed gives for an infinite number.
Magnitude(change) ==
    IF change.t = "ratio"
    THEN [tenths |-> (20 * Abs(change.num) + Abs(change.den))
                        \div (2 * Abs(change.den))]
    ELSE [text |-> "Infinity"]

\* The change line of renderMetricCard (lines 111-115).
renderMetricCard(value, previousValue) ==
    LET change == Change(value, previousValue) IN
    IF ChangeShown(change)
    THEN [indicator |-> IF ChangeIsUp(change) THEN "up" ELSE "down",
          magnitude |-> Magnitude(change)]
    ELSE [indicator |-> "none"]

\* Metric values a parsed JSON body can hold (1e999 parses to Infinity), and
\* undefined for a metric or a previous record that is missing.
MetricValues ==
    {JsUndefined, JsNull, JsInfinity, Num(0), Num(90), Num(100), Num(120)}

PreviousValues ==
    {JsUndefined, JsNull, JsInfinity, Num(0), Num(100), Num(120), Num(-100)}

CardCalls ==
    {[fn |-> "renderMetricCard", value |-> v, previousValue |-> p] :
        v \in MetricValues, p \in PreviousValues}

ApplyMetricCard ==
    /\ call.fn = "renderMetricCard"
    /\ ret = NoRet
    /\ ret' = Ret(renderMetricCard(call.value, call.previousValue))
    /\ UNCHANGED <<ticker, loading, error, data, analysisType, analysisContent,
                   loadingAnalysis, searchReqs, analysisReqs, uncaught,
                   fromLatest, event, call>>

\* ---------------------------------------------------------------------
\* The three formatters (lines 3-27).
\* ---------------------------------------------------------------------

\* A number given in thousandths, so that 12.345 is Thousandths(12345).
Thousandths(n) == [t |-> "number", thousandths |-> n]

\* A string that is not the text of a number, as a JSON body can carry one
\* where a number was expected.
JsString == [t |-> "string"]

\* A function that throws instead of returning.
Threw(e) == [threw |-> e]

\* n / d rounded to the nearest integer, halves away from zero: the rounding
\* of toFixed and of Intl.NumberFormat.
RoundDiv(n, d) ==
    IF n >= 0 THEN (2 * n + d) \div (2 * d)
    ELSE 0 - ((2 * (0 - n) + d) \div (2 * d))

\* The test at the head of each formatter (lines 4, 14, 25):
\* value === null || value === undefined.
IsAbsent(value) == value = JsNull \/ value = JsUndefined

\* Intl.NumberFormat(...).format(value) with two fraction digits (lines
\* 5-10): format converts its argument to a number first, and prints NaN
\* and the infinities as text.
formatPrice(value) ==
    IF IsAbsent(value) THEN Ret([text |-> "N/A"])
    ELSE IF value \in {JsNaN, JsString} THEN Ret([text |-> "$NaN"])
    ELSE IF value = JsInfinity THEN Ret([text |-> "$Infinity"])
    ELSE Ret([text |-> "$", cents |-> RoundDiv(value.thousandths, 10)])

\* Intl.NumberFormat(...).format(value), compact with no fraction digits
\* (lines 15-21): whole units below 1000, whole thousands with K from there.
formatCurrency(value) ==
    IF IsAbsent(value) THEN Ret([text |-> "N/A"])
    ELSE IF value \in {JsNaN, JsString} THEN Ret([text |-> "$NaN"])
    ELSE IF value = JsInfinity THEN Ret([text |-> "$Infinity"])
    ELSE LET units == RoundDiv(value.thousandths, 1000) IN
         IF Abs(units) < 1000
         THEN Ret([text |-> "$", units |-> units])
         ELSE Ret([text |-> "$K",
                   thousands |-> RoundDiv(value.thousandths, 1000000)])

\* `${value.toFixed(2)}%` (line 26): a string has no toFixed, so the call
\* throws a TypeError; NaN and Infinity print as text.
formatPercent(value) ==
    IF IsAbsent(value) THEN Ret([text |-> "N/A"])
    ELSE IF value = JsString THEN Threw("TypeError")
    ELSE IF value = JsNaN THEN Ret([text |-> "NaN%"])
    ELSE IF value = JsInfinity THEN Ret([text |-> "Infinity%"])
    ELSE Ret([text |-> "%", hundredths |-> RoundDiv(value.thousandths, 10)])

Formatters == {"formatPrice", "formatCurrency", "formatPercent"}

Format(fn, value) ==
    CASE fn = "formatPrice" -> formatPrice(value)
      [] fn = "formatCurrency" -> formatCurrency(value)
      [] fn = "formatPercent" -> formatPercent(value)

\* Values handed to a formatter: missing ones, NaN, Infinity, a string, and
\* numbers on both sides of a rounding step and of the compact threshold.
FormatValues ==
    {JsNull, JsUndefined, JsNaN, JsInfinity, JsString}
      \cup {Thousandths(n) : n \in {0, 12344, 12345, -12345, 999499, 1500000}}

FormatCalls == {[fn |-> f, value |-> v] : f \in Formatters, v \in FormatValues}

ApplyFormat ==
    /\ call.fn \in Formatters
    /\ ret = NoRet
    /\ ret' = Format(call.fn, call.value)
    /\ UNCHANGED <<ticker, loading, error, data, analysisType, analysisContent,
                   loadingAnalysis, searchReqs, analysisReqs, uncaught,
                   fromLatest, event, call>>

\* ---------------------------------------------------------------------
\* The view of a dataset (lines 147-236): the period block, the metric
\* cards and the chart rows, evaluated in that order.
\* ---------------------------------------------------------------------

\* Lines 182-194: data.quarterly_data[0].date and data.quarterly_data[1].date
\* are read with no test; reading .date of undefined throws a TypeError.
PeriodBlock(qd) ==
    IF Len(qd) < 2 THEN Threw("TypeError")
    ELSE Ret([latest |-> qd[1].date, previous |-> qd[2].date])

\* data.quarterly_data[1]?.metrics.X (lines 200, 206, 211, 217).
PreviousMetric(qd, m) == IF Len(qd) >= 2 THEN qd[2].metrics[m] ELSE JsUndefined

\* Lines 196-223: the four cards, under data.quarterly_data[0] && (...).
MetricCards(qd) ==
    IF Len(qd) = 0 THEN <<>>
    ELSE [i \in 1..4 |->
            LET m == <<"Revenue", "NetIncome", "ProfitMargin", "Assets">>[i] IN
            renderMetricCard(qd[1].metrics[m], PreviousMetric(qd, m))]

\* The block under {data && (...)}: a throw in the period block ends the
\* render before the cards and the chart are evaluated.
Render(qd) ==
    LET period == PeriodBlock(qd) IN
    IF "threw" \in DOMAIN period THEN period
    ELSE Ret([period |-> period.value,
              cards |-> MetricCards(qd),
              chart |-> chartData(qd)])

RenderCalls == {[fn |-> "render", quarterly_data |-> qd] : qd \in QuarterlySeqs}

ApplyRender ==
    /\ call.fn = "render"
    /\ ret = NoRet
    /\ ret' = Render(call.quarterly_data)
    /\ UNCHANGED <<ticker, loading, error, data, analysisType, analysisContent,
                   loadingAnalysis, searchReqs, analysisReqs, uncaught,
                   fromLatest, event, call>>

Calls == ChartCalls \cup CardCalls \cup FormatCalls \cup RenderCalls

PureInit ==
    /\ ticker = <<>>
    /\ loading = FALSE
    /\ error = ""
    /\ data = null
    /\ analysisType = nullType
    /\ analysisContent = ""
    /\ loadingAnalysis = FALSE
    /\ searchReqs = <<>>
    /\ analysisReqs = <<>>
    /\ uncaught = FALSE
    /\ fromLatest = TRUE
    /\ event = "mount"
    /\ call \in Calls
    /\ ret = NoRet

PureNext ==
    \/ ApplyChartData
    \/ ApplyMetricCard
    \/ ApplyFormat
    \/ ApplyRender

PureSpec == PureInit /\ [][PureNext]_vars

\* What the claims say of a change, written out: present and non-zero.
PresentNonZero(p) == IsNum(p) /\ p.v # 0

\* The change is a finite number: both operands are finite numbers, a null
\* value counting as 0.
FiniteOperands(v, p) == (IsNum(v) \/ v = JsNull) /\ IsNum(p)

ValueOf(v) == IF v = JsNull THEN 0 ELSE v.v

\* C13: the card shows a change indicator exactly when the previous value is
\* present and non-zero and the change is a finite number; it points up when
\* the change is >= 0 and down when it is < 0; 120 against 100 gives 20.0 up;
\* and the text shown is never NaN or Infinity.
C13_ChangeIndicator ==
    (call.fn = "renderMetricCard" /\ ret # NoRet)
       => LET v == call.value
              p == call.previousValue
              shown == ret.value.indicator # "none" IN
          /\ shown <=> (PresentNonZero(p) /\ FiniteOperands(v, p))
          /\ shown => "tenths" \in DOMAIN ret.value.magnitude
          /\ (shown /\ FiniteOperands(v, p))
                => (ret.value.indicator = "up"
                       <=> (ValueOf(v) - p.v) * p.v >= 0)
          /\ (v = Num(120) /\ p = Num(100))
                => ret.value = [indicator |-> "up", magnitude |-> [tenths |-> 200]]

\* C13 witness: 120 against 100 came back as 20.0 up.
C13_Witness ==
    /\ call.fn = "renderMetricCard"
    /\ call.value = Num(120)
    /\ call.previousValue = Num(100)
    /\ ret = Ret([indicator |-> "up", magnitude |-> [tenths |-> 200]])

\* Absent as the formatters' contract has it: null, undefined and NaN.
IsAbsentOrNaN(value) == value \in {JsNull, JsUndefined, JsNaN}

\* C14: each of formatPrice, formatCurrency and formatPercent returns for
\* every input (it never throws), returns "N/A" for null, undefined and NaN,
\* and never returns a text containing NaN; formatPercent(12.345) is "12.35%".
C14_FormattersTotal ==
    (call.fn \in Formatters /\ ret # NoRet)
       => /\ "value" \in DOMAIN ret
          /\ IsAbsentOrNaN(call.value) => ret = Ret([text |-> "N/A"])
          /\ ret.value.text \notin {"$NaN", "NaN%"}
          /\ (call.fn = "formatPercent" /\ call.value = Thousandths(12345))
                => ret = Ret([text |-> "%", hundredths |-> 1235])

\* C14 witness: formatPercent(12.345) came back as "12.35%".
C14_Witness ==
    /\ call = [fn |-> "formatPercent", value |-> Thousandths(12345)]
    /\ ret = Ret([text |-> "%", hundredths |-> 1235])

\* C16: the view of a dataset with 0, 1 or 2 quarterly records renders
\* without throwing, and with no previous record the cards get an undefined
\* previous value and show no change indicator.
C16_RenderToleratesShortSequences ==
    (call.fn = "render" /\ ret # NoRet)
       => /\ "value" \in DOMAIN ret
          /\ Len(call.quarterly_data) = 1
                => \A i \in 1..4 : ret.value.cards[i] = [indicator |-> "none"]

\* C16 witness: a dataset with two quarterly records was rendered, with its
\* four cards.
C16_Witness ==
    /\ call.fn = "render"
    /\ Len(call.quarterly_data) = 2
    /\ "value" \in DOMAIN ret
    /\ Len(ret.value.cards) = 4

\* C15 as stated: with no analysis ever requested, when the last search in
\* flight resolves, the dataset and the error shown are those of that
\* response: its dataset and no error if it succeeded, its message and no
\* dataset if it failed.
C15_LastResolvingWins ==
    [][(event' = "searchSettled" /\ analysisType = nullType
           /\ searchReqs' = <<>>)
         => \A resp \in SearchResponses :
              SearchSettles(1, resp)
                 => IF Fails(resp)
                    THEN data' = null /\ error' = SearchTry(resp).message
                    ELSE data' = resp.body /\ error' = ""]_vars

\* C15 amended: a second search may start while one is in flight and cancels
\* nothing; each response, in whatever order the two resolve, takes only its
\* own request out of flight and overwrites only its own slot: a success
\* replaces the dataset and leaves the error, a failure replaces the error
\* and leaves the dataset.
C15_EachResponseWritesItsOwnSlot ==
    [][/\ (event' = "handleSearch" /\ ticker # <<>>)
          => /\ Len(searchReqs') = Len(searchReqs) + 1
             /\ \A i \in 1..Len(searchReqs) : searchReqs'[i] = searchReqs[i]
       /\ event' = "searchSettled"
          => \A i \in 1..Len(searchReqs) : \A resp \in SearchResponses :
               SearchSettles(i, resp)
                  => /\ searchReqs' = Remove(searchReqs, i)
                     /\ IF Fails(resp)
                        THEN /\ error' = SearchTry(resp).message
                             /\ data' = data
                        ELSE /\ data' = resp.body
                             /\ error' = error]_vars

\* C15 witness: two searches overlapped, one failed and one succeeded, and
\* with both resolved a dataset and a search error are shown together.
C15_Witness ==
    /\ event = "searchSettled"
    /\ searchReqs = <<>>
    /\ analysisType = nullType
    /\ data \in Datasets
    /\ error \in {"Not found", SearchFallback, NetworkErrorMessage,
                   SyntaxErrorMessage}

\* C17: whenever a response puts an analysis text on display while a dataset
\* is held, the request it answers was posted with that dataset as its body;
\* a response for an earlier dataset is never displayed against a new one.
C17_TextIsForDatasetHeld ==
    [][event' = "analysisSettled"
         => \A i \in 1..Len(analysisReqs) : \A resp \in AnalysisResponses :
              (AnalysisSettles(i, resp) /\ ~Fails(resp) /\ TextShown'
                  /\ data' # null)
                 => analysisReqs[i].body = data']_vars

\* C17 witness: an analysis text is on display beside the dataset its request
\* was posted with, no search having started since.
C17_Witness ==
    /\ event = "analysisSettled"
    /\ TextShown
    /\ data = SnapshotA
    /\ fromLatest
    /\ searchReqs = <<>>

\* C18: with the analysis buttons disabled while an analysis is loading,
\* whenever an analysis text is shown a kind is selected and the text is the
\* result field of that kind, so the heading made from the selected kind
\* names the kind of text shown.
C18_TextMatchesSelectedKind ==
    TextShown
       => /\ analysisType \in AnalysisTypes
          /\ analysisContent = ResultText[FieldOf[analysisType]]

\* C18 witness: a risk analysis has put its text on display, with no error
\* shown.
C18_Witness ==
    /\ event = "analysisSettled"
    /\ analysisType = "risk"
    /\ analysisContent = ResultText["risk_assessment"]
    /\ error = ""

\* C19: under the buttons' gating, while a search is in flight loading is
\* set and no dataset is held, and no analysis request is issued between a
\* search's start and its completion: the analysis buttons are not rendered
\* and no step adds an analysis request.
C19_NoAnalysisWhileSearching ==
    [][/\ (loading \/ searchReqs # <<>>)
          => /\ loading /\ Len(searchReqs) = 1
             /\ data = null
             /\ ~AnalysisButtonsRendered
             /\ Len(analysisReqs') <= Len(analysisReqs)
       /\ event' = "handleSearch" => (loading' /\ data' = null)]_vars

\* C19 witness: a search is in flight, started from a state that held a
\* dataset and had an analysis pending; that analysis has since resolved.
C19_Witness ==
    /\ loading
    /\ Len(searchReqs) = 1
    /\ data = null
    /\ event = "analysisSettled"
    /\ analysisType # nullType

SucceededAnalysisResponses == AnalysisResponses \ FailedAnalysisResponses

\* C20: the error message goes from set to empty only in a step of
\* handleSearch; starting an analysis request and completing one
\* successfully leave the error as it is, so the error of a failed analysis
\* stays beside the text of a later successful one until the next search.
C20_ErrorClearedOnlyBySearch ==
    [][/\ (error # "" /\ error' = "") => event' = "handleSearch"
       /\ event' = "handleAnalysisClick" => error' = error
       /\ event' = "analysisSettled"
          => \A i \in 1..Len(analysisReqs) :
               \A resp \in SucceededAnalysisResponses :
                  AnalysisSettles(i, resp) => error' = error]_vars

\* C20 witness: an analysis failed, a later one succeeded, and its text is
\* shown beside the first one's error.
C20_Witness ==
    /\ event = "analysisSettled"
    /\ error = AnalysisFallback
    /\ TextShown
    /\ analysisReqs = <<>>
    /\ searchReqs = <<>>
====
